---- MODULE Spec2Model ----
(***************************************************************************)
(* KAFY trajectory tokenizer / detokenizer (KAFY/utilFunctions.py).        *)
(*                                                                         *)
(* Coordinates are integers counting units of 1e-7 degree, so that the     *)
(* rounding to 6 decimals done at the output boundary is a real            *)
(* conversion (to the nearest multiple of 10 units).  The h3 grid, which   *)
(* the code only calls, is a square grid with one cell size per            *)
(* resolution; a token is the tuple <<resolution, row, column>>.           *)
(***************************************************************************)
EXTENDS Integers, Sequences, FiniteSets, TLC

VARIABLES
    h3_clusters,            \* DeTokenizer.h3_clusters: token -> ClusterStat
    h3_kmeans,              \* DeTokenizer.h3_kmeans: token -> <<m, means>>
    pc,                     \* position of the running call
    trajectory,             \* tokenize_trajectory: argument
    resolution,             \* tokenize_trajectory: argument
    tokens,                 \* tokenize_trajectory: the list being built
    calls,                  \* number of tokenize_trajectory calls made
    prior_tokens,           \* tokens returned by the previous tokenize call
    tokenized_trajectory,   \* detokenize_trajectory: argument
    idx,                    \* detokenize_trajectory: tokens consumed by the loop
    detokenized_trajectory, \* detokenize_trajectory: the list being built
    previous_point,         \* detokenize_trajectory: carried state
    ret,                    \* value returned by detokenize_trajectory
    method,                 \* DeTokenizer method called directly on an instance
    arg_token,              \* its token argument
    arg_previous,           \* its previous_point argument
    result                  \* the Point it returned

vars == <<h3_clusters, h3_kmeans, pc, trajectory, resolution, tokens, calls,
          prior_tokens, tokenized_trajectory, idx, detokenized_trajectory,
          previous_point, ret, method, arg_token, arg_previous, result>>

-----------------------------------------------------------------------------
(* Bounds of the model *)

\* longest trajectory / token sequence handed to a call
MaxLen == 3

\* how many times tokenize_trajectory is called on the same input
MaxCalls == 2

-----------------------------------------------------------------------------
(* Python values *)

\* Python's None
None == [none |-> TRUE]

\* Point.__init__(x, y): x is the longitude, y the latitude
Point(x, y) == [x |-> x, y |-> y]

\* truth value of an object: Point defines neither __bool__ nor __len__, so
\* every Point is truthy and only None is falsy
Truthy(v) == v # None

\* round(v, 6) on a value counted in 1e-7 units: the nearest multiple of 10.
\* Python decides a decimal tie by the float's binary value; here it goes to
\* the even 6th decimal.
Round6(v) ==
    LET q == v \div 10
        r == v % 10
    IN  IF r < 5 THEN q * 10
        ELSE IF r > 5 THEN (q + 1) * 10
        ELSE IF q % 2 = 0 THEN q * 10 ELSE (q + 1) * 10

-----------------------------------------------------------------------------
(* The h3 grid as the code uses it *)

Resolutions == {1, 2}

\* edge of a cell, in coordinate units
CellSize(res) == IF res = 1 THEN 20 ELSE 10

\* rows / columns of the modelled region
CellRange == 0 .. 2

\* h3.geo_to_h3(lat, lon, res)
geo_to_h3(lat, lon, res) == <<res, lat \div CellSize(res), lon \div CellSize(res)>>

\* h3.h3_is_valid(token): structural check only
h3_is_valid(token) ==
    /\ Len(token) = 3
    /\ token[1] \in Resolutions
    /\ token[2] \in CellRange
    /\ token[3] \in CellRange

\* h3.h3_to_geo(token): centre of the cell as (lat, lon)
h3_to_geo(token) ==
    LET s == CellSize(token[1])
    IN  <<token[2] * s + s \div 2, token[3] * s + s \div 2>>

-----------------------------------------------------------------------------
(* Tokenizer *)

\* token2centroid_h3_yx with the coordinates handed over in the other order
token2centroid_h3_xy(lat, lon, res) == geo_to_h3(lon, lat, res)

\* token2centroid_h3_yx(lat, lon, res)
token2centroid_h3_yx(lat, lon, res) == geo_to_h3(lat, lon, res)

-----------------------------------------------------------------------------
(* Geometry *)

Sign(n) == IF n > 0 THEN 1 ELSE IF n < 0 THEN -1 ELSE 0

\* math.degrees(math.atan2(x, y)) to the compass octant: only the signs of x
\* and y are kept, a diagonal standing for every angle strictly inside its
\* quadrant; atan2(0, 0) is 0
Atan2Degrees(x, y) ==
    IF x = 0 THEN (IF y < 0 THEN 180 ELSE 0)
    ELSE IF x > 0 THEN (IF y > 0 THEN 45 ELSE IF y = 0 THEN 90 ELSE 135)
    ELSE (IF y > 0 THEN -45 ELSE IF y = 0 THEN -90 ELSE -135)

\* Point.calculate_bearing(self, point_a, point_b), both (latitude, longitude).
\* Over the modelled region (a few 1e-7 degrees at the equator) x has the sign
\* of the longitude difference and y the sign of the latitude difference.
calculate_bearing(point_a, point_b) ==
    LET diff_long == point_b[2] - point_a[2]
        x == Sign(diff_long)
        y == Sign(point_b[1] - point_a[1])
        initial_bearing == Atan2Degrees(x, y)
    IN  (initial_bearing + 360) % 360

-----------------------------------------------------------------------------
(* Classifier: m.predict of a fitted 1-feature KMeans, m being its centres *)

Abs(n) == IF n < 0 THEN -n ELSE n

\* label (0-based) of the nearest centre, the lowest label on a tie
predict(m, angle) ==
    CHOOSE l \in 0 .. Len(m) - 1 :
        \A k \in 0 .. Len(m) - 1 :
            \/ Abs(angle - m[l + 1]) < Abs(angle - m[k + 1])
            \/ Abs(angle - m[l + 1]) = Abs(angle - m[k + 1]) /\ l <= k

-----------------------------------------------------------------------------
(* DeTokenizer *)

\* the instance: what __init__ loaded
DeTokenizer == [h3_clusters |-> h3_clusters, h3_kmeans |-> h3_kmeans]

\* token2point_h3_centroid with the (lat, lon) pair unpacked as (x, y)
token2point_h3_centroid_swapped(self, token) ==
    LET geo == h3_to_geo(token)
    IN  Point(geo[1], geo[2])

\* DeTokenizer.token2point_h3_centroid(self, token)
token2point_h3_centroid(self, token) ==
    LET geo == h3_to_geo(token)
        y == geo[1]
        x == geo[2]
    IN  Point(x, y)

\* token2point_data_centroid that never consults h3_clusters
token2point_data_centroid_grid_only(self, token) ==
    [x |-> h3_to_geo(token)[2], y |-> h3_to_geo(token)[1]]

\* DeTokenizer.token2point_data_centroid(self, token)
token2point_data_centroid(self, token) ==
    IF token \in DOMAIN self.h3_clusters
    THEN LET cluster == self.h3_clusters[token]
         IN  Point(cluster.x, cluster.y)
    ELSE token2point_h3_centroid(self, token)

\* token2point_cluster_centroid with the gate written "< 20"
token2point_cluster_centroid_strict_gate(self, token, prev_point) ==
    LET c == token2point_data_centroid(self, token)
    IN  IF token \notin DOMAIN self.h3_kmeans THEN c
        ELSE IF ~Truthy(prev_point) THEN c
        ELSE IF /\ token \in DOMAIN self.h3_clusters
                /\ self.h3_clusters[token].current_count < 20
        THEN c
        ELSE LET angle == calculate_bearing(<<prev_point.y, prev_point.x>>,
                                            <<c.y, c.x>>)
                 row == self.h3_kmeans[token][2][
                            predict(self.h3_kmeans[token][1], angle) + 1]
             IN  Point(row[1], row[2])

\* the sample count up to which the classifier is not trusted
CountThreshold == 20

\* DeTokenizer.token2point_cluster_centroid(self, token, previous_point)
\* (the parameter previous_point is written prev_point here)
token2point_cluster_centroid(self, token, prev_point) ==
    LET c == token2point_data_centroid(self, token)
    IN  IF token \notin DOMAIN self.h3_kmeans THEN c
        ELSE IF ~Truthy(prev_point) THEN c
        ELSE IF /\ token \in DOMAIN self.h3_clusters
                /\ self.h3_clusters[token].current_count <= CountThreshold
        THEN c
        ELSE LET angle == calculate_bearing(<<prev_point.y, prev_point.x>>,
                                            <<c.y, c.x>>)
                 m == self.h3_kmeans[token][1]
                 means == self.h3_kmeans[token][2]
                 row == means[predict(m, angle) + 1]
             IN  Point(row[1], row[2])

-----------------------------------------------------------------------------
(* Inputs the calls are made with *)

\* every sequence over S of length at most n
SeqUpTo(S, n) == UNION {[1 .. k -> S] : k \in 0 .. n}

\* latitudes / longitudes of the GPS points, in coordinate units
Coords == {3, 14, 25}

\* (latitude, longitude) tuples of a trajectory
GpsPoints == Coords \X Coords

\* tokens the ModelStore may know
StoreKeys == {<<2, 0, 1>>, <<2, 1, 0>>}

\* tokens of a tokenized trajectory: the two above, a valid token no store
\* knows, and two malformed ones
TokenChoices == StoreKeys \cup {<<1, 0, 0>>, <<>>, <<0, 0, 0>>}

\* h3_clusters entries: the observed centroid and its sample count
ClusterStats == {[x |-> 12, y |-> 7, current_count |-> n] : n \in {0, 20, 21}}

\* h3_kmeans entries (m, means): m is the fitted predictor, given by its
\* centres; means holds one (x, y, count) row per label
ClassifierEntries == {<< <<90, 270>>, << <<18, 9, 30>>, <<12, 7, 25>> >> >>}

\* every mapping from some of the keys to the values
PartialMaps(keys, values) == UNION {[K -> values] : K \in SUBSET keys}

\* previous_point arguments of a direct call
PreviousChoices ==
    {None, Point(15, 5), Point(5, 15), Point(12, 7), Point(18, 9), Point(25, 25)}

-----------------------------------------------------------------------------
(* State after construction *)

NoCall ==
    /\ pc = "idle"
    /\ trajectory = <<>>
    /\ resolution = 0
    /\ tokens = <<>>
    /\ calls = 0
    /\ prior_tokens = <<>>
    /\ tokenized_trajectory = <<>>
    /\ idx = 0
    /\ detokenized_trajectory = <<>>
    /\ previous_point = None
    /\ ret = <<>>
    /\ method = "none"
    /\ arg_token = <<>>
    /\ arg_previous = None
    /\ result = None

\* DeTokenizer.__init__: both mappings loaded, any well-formed content
Init ==
    /\ h3_clusters \in PartialMaps(StoreKeys, ClusterStats)
    /\ h3_kmeans \in PartialMaps(StoreKeys, ClassifierEntries)
    /\ NoCall

\* DeTokenizer.__init__ with both mappings empty
InitEmptyStore ==
    /\ h3_clusters = <<>>
    /\ h3_kmeans = <<>>
    /\ NoCall

-----------------------------------------------------------------------------
(* tokenize_trajectory *)

\* the call: tokens = [...] starts empty
CallTokenize ==
    /\ pc = "idle"
    /\ \E traj \in SeqUpTo(GpsPoints, MaxLen), res \in Resolutions :
        /\ trajectory' = traj
        /\ resolution' = res
    /\ tokens' = <<>>
    /\ calls' = 1
    /\ pc' = "tokenize"
    /\ UNCHANGED <<h3_clusters, h3_kmeans, prior_tokens, tokenized_trajectory, idx,
                   detokenized_trajectory, previous_point, ret, method, arg_token,
                   arg_previous, result>>

\* one element of the list comprehension
TokenizeStep ==
    /\ pc = "tokenize"
    /\ Len(tokens) < Len(trajectory)
    /\ LET lat == trajectory[Len(tokens) + 1][1]
           lon == trajectory[Len(tokens) + 1][2]
       IN  tokens' = Append(tokens, token2centroid_h3_yx(lat, lon, resolution))
    /\ UNCHANGED <<h3_clusters, h3_kmeans, pc, trajectory, resolution, calls,
                   prior_tokens, tokenized_trajectory, idx, detokenized_trajectory,
                   previous_point, ret, method, arg_token, arg_previous, result>>

\* return tokens
TokenizeReturn ==
    /\ pc = "tokenize"
    /\ Len(tokens) = Len(trajectory)
    /\ pc' = "tokenized"
    /\ UNCHANGED <<h3_clusters, h3_kmeans, trajectory, resolution, tokens, calls,
                   prior_tokens, tokenized_trajectory, idx, detokenized_trajectory,
                   previous_point, ret, method, arg_token, arg_previous, result>>

\* the caller keeps the returned list and calls again with the same arguments
TokenizeAgain ==
    /\ pc = "tokenized"
    /\ calls < MaxCalls
    /\ prior_tokens' = tokens
    /\ tokens' = <<>>
    /\ calls' = calls + 1
    /\ pc' = "tokenize"
    /\ UNCHANGED <<h3_clusters, h3_kmeans, trajectory, resolution,
                   tokenized_trajectory, idx, detokenized_trajectory,
                   previous_point, ret, method, arg_token, arg_previous, result>>

-----------------------------------------------------------------------------
(* detokenize_trajectory *)

\* entry: detokenized_trajectory = [], previous_point = None
BeginDetokenize(toks) ==
    /\ tokenized_trajectory' = toks
    /\ idx' = 0
    /\ detokenized_trajectory' = <<>>
    /\ previous_point' = None
    /\ pc' = "detokenize"
    /\ UNCHANGED <<h3_clusters, h3_kmeans, trajectory, resolution, tokens, calls,
                   prior_tokens, ret, method, arg_token, arg_previous, result>>

\* a call with any token sequence
CallDetokenize ==
    /\ pc = "idle"
    /\ \E toks \in SeqUpTo(TokenChoices, MaxLen) : BeginDetokenize(toks)

\* a call with the list tokenize_trajectory returned
CallDetokenizeOnTokens ==
    /\ pc = "tokenized"
    /\ BeginDetokenize(tokens)

\* parameters of "def token2point_cluster_centroid(self, token, previous_point)"
ClusterCentroidParams == <<"self", "token", "previous_point">>

\* Python binds positional arguments to parameters one to one; a parameter
\* without default that gets no argument raises TypeError before the body runs
BindsAll(params, args) == Len(args) = Len(params)

\* one iteration of "for token in tokenized_trajectory".  The method is looked
\* up on the class, DeTokenizer.token2point_cluster_centroid(token,
\* previous_point): no instance is bound, the two arguments are all it gets.
DetokenizeStep ==
    /\ pc = "detokenize"
    /\ idx < Len(tokenized_trajectory)
    /\ LET token == tokenized_trajectory[idx + 1]
           args == <<token, previous_point>>
       IN  IF ~h3_is_valid(token)
           THEN /\ idx' = idx + 1
                /\ UNCHANGED <<pc, detokenized_trajectory, previous_point>>
           ELSE IF ~BindsAll(ClusterCentroidParams, args)
           THEN /\ pc' = "TypeError"
                /\ UNCHANGED <<idx, detokenized_trajectory, previous_point>>
           ELSE LET point == token2point_cluster_centroid(args[1], args[2], args[3])
                IN  /\ previous_point' = point
                    /\ detokenized_trajectory' =
                           Append(detokenized_trajectory,
                                  <<Round6(point.y), Round6(point.x)>>)
                    /\ idx' = idx + 1
                    /\ pc' = pc
    /\ UNCHANGED <<h3_clusters, h3_kmeans, trajectory, resolution, tokens, calls,
                   prior_tokens, tokenized_trajectory, ret, method, arg_token,
                   arg_previous, result>>

\* return detokenized_trajectory
DetokenizeReturn ==
    /\ pc = "detokenize"
    /\ idx = Len(tokenized_trajectory)
    /\ ret' = detokenized_trajectory
    /\ pc' = "returned"
    /\ UNCHANGED <<h3_clusters, h3_kmeans, trajectory, resolution, tokens, calls,
                   prior_tokens, tokenized_trajectory, idx, detokenized_trajectory,
                   previous_point, method, arg_token, arg_previous, result>>

-----------------------------------------------------------------------------
(* The resolver methods called on an instance *)

ValidTokenChoices == {t \in TokenChoices : h3_is_valid(t)}

\* DeTokenizer().token2point_data_centroid(token)
CallDataCentroid ==
    /\ pc = "idle"
    /\ \E token \in ValidTokenChoices :
        /\ arg_token' = token
        /\ result' = token2point_data_centroid(DeTokenizer, token)
    /\ method' = "token2point_data_centroid"
    /\ pc' = "resolved"
    /\ UNCHANGED <<h3_clusters, h3_kmeans, trajectory, resolution, tokens, calls,
                   prior_tokens, tokenized_trajectory, idx, detokenized_trajectory,
                   previous_point, ret, arg_previous>>

\* DeTokenizer().token2point_cluster_centroid(token, previous_point)
CallClusterCentroid ==
    /\ pc = "idle"
    /\ \E token \in ValidTokenChoices, prev \in PreviousChoices :
        /\ arg_token' = token
        /\ arg_previous' = prev
        /\ result' = token2point_cluster_centroid(DeTokenizer, token, prev)
    /\ method' = "token2point_cluster_centroid"
    /\ pc' = "resolved"
    /\ UNCHANGED <<h3_clusters, h3_kmeans, trajectory, resolution, tokens, calls,
                   prior_tokens, tokenized_trajectory, idx, detokenized_trajectory,
                   previous_point, ret>>

-----------------------------------------------------------------------------
(* Specifications *)

\* detokenization and the resolver, over every store
Next ==
    \/ CallDetokenize
    \/ DetokenizeStep
    \/ DetokenizeReturn
    \/ CallDataCentroid
    \/ CallClusterCentroid

Spec == Init /\ [][Next]_vars

\* tokenization, then detokenization of its result, with an empty store
NextPipeline ==
    \/ CallTokenize
    \/ TokenizeStep
    \/ TokenizeReturn
    \/ TokenizeAgain
    \/ CallDetokenizeOnTokens
    \/ DetokenizeStep
    \/ DetokenizeReturn

SpecPipeline == InitEmptyStore /\ [][NextPipeline]_vars

-----------------------------------------------------------------------------
(* Vocabulary of the properties *)

\* the call has ended, by a return or by an exception
Finished == pc \in {"returned", "TypeError"}

\* the valid tokens of a sequence, in order
ValidTokens(seq) == SelectSeq(seq, h3_is_valid)

AllValid(seq) == \A i \in 1 .. Len(seq) : h3_is_valid(seq[i])

\* Tier 1: the grid-cell centroid of a token
HexCentroid(token) == [x |-> h3_to_geo(token)[2], y |-> h3_to_geo(token)[1]]

\* the observed centroid of a token that has a ClusterStat
StatPoint(token) == [x |-> h3_clusters[token].x, y |-> h3_clusters[token].y]

\* Tier 2: the observed centroid, else the grid-cell centroid
TierTwo(token) ==
    IF token \in DOMAIN h3_clusters THEN StatPoint(token) ELSE HexCentroid(token)

\* the ClusterStat gate of Tier 3
Gated(token) ==
    token \in DOMAIN h3_clusters /\ h3_clusters[token].current_count <= 20

\* the condition under which Tier 3 refines
Refines(token, prev) ==
    /\ token \in DOMAIN h3_kmeans
    /\ prev # None
    /\ ~Gated(token)

\* Tier 3: the means row of the label predicted for the bearing from prev to
\* the Tier-2 point
TierThree(token, prev) ==
    LET c == TierTwo(token)
        label == predict(h3_kmeans[token][1],
                         calculate_bearing(<<prev.y, prev.x>>, <<c.y, c.x>>))
        row == h3_kmeans[token][2][label + 1]
    IN  [x |-> row[1], y |-> row[2]]

\* a point as detokenize_trajectory emits it: (latitude, longitude), 6 decimals
Emitted(p) == <<Round6(p.y), Round6(p.x)>>

\* the points a token may resolve to
Candidates(token) ==
    {HexCentroid(token)}
    \cup (IF token \in DOMAIN h3_clusters THEN {StatPoint(token)} ELSE {})
    \cup (IF token \in DOMAIN h3_kmeans
          THEN {[x |-> h3_kmeans[token][2][l][1], y |-> h3_kmeans[token][2][l][2]] :
                    l \in 1 .. Len(h3_kmeans[token][2])}
          ELSE {})

-----------------------------------------------------------------------------
(* Properties *)

\* C1: detokenize returns at most as many points as there are input tokens,
\* exactly one per valid token, so as many as the input iff every token is
\* structurally valid.
C1_DetokenizeLength ==
    Finished =>
        /\ pc = "returned"
        /\ Len(ret) <= Len(tokenized_trajectory)
        /\ Len(ret) = Len(ValidTokens(tokenized_trajectory))
        /\ (Len(ret) = Len(tokenized_trajectory) <=> AllValid(tokenized_trajectory))

\* C2: with a well-formed store detokenize never ends in an error: whatever
\* the tokens are, the call into the resolver completes.
C2_NoErrorOutcome == pc # "TypeError"

\* C3: the resolver returns the Tier-3 means row exactly when the token has a
\* classifier, previous_point is defined and no ClusterStat with
\* current_count <= 20 gates it; otherwise it returns the Tier-2 point.  A
\* count of 20 is not refined, a count of 21 is.
C3_TierThreeCondition ==
    (pc = "resolved" /\ method = "token2point_cluster_centroid") =>
        /\ Refines(arg_token, arg_previous) =>
               result = TierThree(arg_token, arg_previous)
        /\ ~Refines(arg_token, arg_previous) => result = TierTwo(arg_token)
        /\ (/\ arg_token \in DOMAIN h3_clusters
            /\ h3_clusters[arg_token].current_count = 20) =>
               result = StatPoint(arg_token)
        /\ (/\ arg_token \in DOMAIN h3_clusters
            /\ h3_clusters[arg_token].current_count = 21
            /\ arg_token \in DOMAIN h3_kmeans
            /\ arg_previous # None) =>
               result = TierThree(arg_token, arg_previous)

\* a token with count 21, a classifier and a previous point was resolved to a
\* means row that is not its Tier-2 point
C3_Witness ==
    /\ pc = "resolved"
    /\ method = "token2point_cluster_centroid"
    /\ arg_token \in DOMAIN h3_kmeans
    /\ arg_token \in DOMAIN h3_clusters
    /\ h3_clusters[arg_token].current_count = 21
    /\ arg_previous # None
    /\ result # TierTwo(arg_token)

\* C4: a valid token in neither mapping resolves to its grid-cell centroid,
\* for every previous_point and whatever the store holds for other tokens.
C4_UnknownTokenCentroid ==
    (/\ pc = "resolved"
     /\ method = "token2point_cluster_centroid"
     /\ arg_token \notin DOMAIN h3_clusters
     /\ arg_token \notin DOMAIN h3_kmeans) =>
        result = HexCentroid(arg_token)

\* an unknown token was resolved with a previous point, in a store that knows
\* other tokens in both mappings
C4_Witness ==
    /\ pc = "resolved"
    /\ method = "token2point_cluster_centroid"
    /\ arg_token \notin DOMAIN h3_clusters
    /\ arg_token \notin DOMAIN h3_kmeans
    /\ arg_token \in StoreKeys
    /\ arg_previous # None
    /\ DOMAIN h3_clusters # {}
    /\ DOMAIN h3_kmeans # {}

\* C5: the data-centroid resolver returns Point(stat.x, stat.y) for a token
\* that has a ClusterStat and the grid-cell centroid only for one that has
\* none; a token with a ClusterStat and no classifier resolves to
\* Point(stat.x, stat.y) for every previous_point.
C5_DataCentroid ==
    pc = "resolved" =>
        /\ method = "token2point_data_centroid" =>
               result = IF arg_token \in DOMAIN h3_clusters
                        THEN StatPoint(arg_token)
                        ELSE HexCentroid(arg_token)
        /\ (/\ method = "token2point_cluster_centroid"
            /\ arg_token \in DOMAIN h3_clusters
            /\ arg_token \notin DOMAIN h3_kmeans) =>
               result = StatPoint(arg_token)

\* a token with a ClusterStat and no classifier was resolved with a previous
\* point, to a point that is not its grid-cell centroid
C5_Witness ==
    /\ pc = "resolved"
    /\ method = "token2point_cluster_centroid"
    /\ arg_token \in DOMAIN h3_clusters
    /\ arg_token \notin DOMAIN h3_kmeans
    /\ arg_previous # None
    /\ result # HexCentroid(arg_token)

\* C6: with an empty store, detokenize(tokenize(points, resolution)) has the
\* length of points and its i-th element is the grid-cell centroid of the
\* i-th token, rounded to 6 decimals.
C6_EndToEnd ==
    Finished =>
        /\ pc = "returned"
        /\ Len(ret) = Len(trajectory)
        /\ \A i \in 1 .. Len(ret) : ret[i] = Emitted(HexCentroid(tokens[i]))

\* C7: for valid t1, t2 with t2 open to Tier-3 refinement, the point
\* detokenize([t1, t2]) produces for t2 differs from the one detokenize([t2])
\* produces, which is resolved without a previous point.
C7_SequentialDependency ==
    (/\ Finished
     /\ Len(tokenized_trajectory) = 2
     /\ AllValid(tokenized_trajectory)
     /\ tokenized_trajectory[2] \in DOMAIN h3_kmeans
     /\ ~Gated(tokenized_trajectory[2])) =>
        /\ pc = "returned"
        /\ Len(ret) = 2
        /\ ret[2] # Emitted(TierTwo(tokenized_trajectory[2]))

\* C8: tokenize returns one token per point, the i-th being
\* point_to_token(lat_i, lon_i, resolution), and a repeated call on the same
\* input returns the same list.
C8_TokenizeMap ==
    /\ Len(tokens) <= Len(trajectory)
    /\ \A i \in 1 .. Len(tokens) :
           tokens[i] = geo_to_h3(trajectory[i][1], trajectory[i][2], resolution)
    /\ pc \notin {"idle", "tokenize"} =>
           /\ Len(tokens) = Len(trajectory)
           /\ calls > 1 => tokens = prior_tokens

\* a second call on a trajectory of several points, in different cells, has
\* returned
C8_Witness ==
    /\ pc = "tokenized"
    /\ calls = 2
    /\ Len(trajectory) >= 2
    /\ tokens[1] # tokens[2]
    /\ trajectory[1][1] # trajectory[1][2]

\* C9: each iteration of detokenize leaves the output and previous_point
\* alone on an invalid token, and on a valid token appends one point and sets
\* previous_point to the unrounded point resolved for it.
C9_PreviousPointTracking ==
    [][(pc = "detokenize" /\ idx < Len(tokenized_trajectory)) =>
          LET token == tokenized_trajectory[idx + 1]
          IN  IF ~h3_is_valid(token)
              THEN /\ detokenized_trajectory' = detokenized_trajectory
                   /\ previous_point' = previous_point
              ELSE /\ Len(detokenized_trajectory') = Len(detokenized_trajectory) + 1
                   /\ previous_point' =
                          IF Refines(token, previous_point)
                          THEN TierThree(token, previous_point)
                          ELSE TierTwo(token)]_vars

\* C10: detokenize emits, for each valid token, a point drawn from that
\* token's own candidates, and for the first valid token its Tier-2 point.
C10_OwnCandidates ==
    (Finished /\ Len(ValidTokens(tokenized_trajectory)) > 0) =>
        LET valid == ValidTokens(tokenized_trajectory)
        IN  /\ pc = "returned"
            /\ Len(ret) = Len(valid)
            /\ \A k \in 1 .. Len(ret) :
                   \E p \in Candidates(valid[k]) : ret[k] = Emitted(p)
            /\ ret[1] = Emitted(TierTwo(valid[1]))

====
